---- MODULE Spec2Model ----
(***************************************************************************)
(* Model of cyclic_lr.py: the cyclical learning-rate schedule CyclicLR and *)
(* the Keras callback LearningRateScheduler.on_epoch_begin that applies it *)
(* to the optimizer.                                                       *)
(*                                                                         *)
(* Numbers.  Learning rates are exact rationals <<n, d>> (d > 0, lowest    *)
(* terms) counted in thousandths, so base_lr = 1 stands for 0.001 and      *)
(* max_lr = 6 for 0.006.  step_size and epochs are integral values.        *)
(* Floating-point rounding is outside the model.  epochs is a Python       *)
(* number (Keras passes a Python int), so a division by a zero step_size   *)
(* raises ZeroDivisionError.  print (line 27) is not modelled.             *)
(***************************************************************************)
EXTENDS Integers, FiniteSets, Sequences, TLC

\* attr.ib defaults of CyclicLR, in thousandths for the two rates.
DefaultBaseLr == 1
DefaultMaxLr == 6
DefaultStepSize == 2000

\* Bounds of the inputs.
MaxEpoch == 6
MaxStep == 3
MaxPow2 == 12

VARIABLES
    base_lr,      \* CyclicLR.base_lr
    max_lr,       \* CyclicLR.max_lr
    step_size,    \* CyclicLR.step_size
    scale_mode,   \* CyclicLR.scale_mode
    scale_fn,     \* CyclicLR.scale_fn: "None" or the name of the callable
    mode,         \* CyclicLR.mode
    has_lr,       \* hasattr(self.model.optimizer, 'lr')
    opt_lr,       \* value of self.model.optimizer.lr
    result,       \* outcome of the last operation
    ctor,         \* history: scale_fn, scale_mode and mode given to the constructor
    mode_changed  \* history: the mode attribute was assigned after construction

vars == <<base_lr, max_lr, step_size, scale_mode, scale_fn, mode,
          has_lr, opt_lr, result, ctor, mode_changed>>

-----------------------------------------------------------------------------
\* Exact rational arithmetic.

Abs(n) == IF n < 0 THEN -n ELSE n

RECURSIVE GCD(_, _)
GCD(a, b) == IF b = 0 THEN a ELSE GCD(b, a % b)

Rat(n, d) ==
    LET g == GCD(Abs(n), Abs(d))
        s == IF d < 0 THEN -1 ELSE 1
    IN  <<(s * n) \div g, (s * d) \div g>>

RatAdd(p, q) == Rat(p[1] * q[2] + q[1] * p[2], p[2] * q[2])
RatMul(p, q) == Rat(p[1] * q[1], p[2] * q[2])
RatSub(p, q) == RatAdd(p, <<-q[1], q[2]>>)
RatAbs(p) == <<Abs(p[1]), p[2]>>
RatLess(p, q) == p[1] * q[2] < q[1] * p[2]
RatLeq(p, q) == p[1] * q[2] <= q[1] * p[2]
RatMax(p, q) == IF RatLess(p, q) THEN q ELSE p
RatInt(n) == <<n, 1>>

\* np.floor(a / b) for integral a and b # 0.
FloorDiv(a, b) == IF b > 0 THEN a \div b ELSE (-a) \div (-b)

RECURSIVE Pow2(_)
Pow2(n) == IF n <= 0 THEN 1 ELSE 2 * Pow2(n - 1)

NoRate == <<0, 0>>

-----------------------------------------------------------------------------
\* Input domains.

Modes == {"triangular", "triangular2", "exp_range", "other"}
ScaleModes == {"cycle", "iterations"}
LrValues == {DefaultBaseLr, DefaultMaxLr}
StepSizes == {-2, 0} \cup (2..MaxStep) \cup {DefaultStepSize}
DefaultEpochs == {0, 500, 1000, 1500, 2000, 4000, 6000}
EpochsFor(s) == IF s = DefaultStepSize THEN DefaultEpochs ELSE 0..MaxEpoch

\* The object as a record of its attr.ib fields.
Self ==
    [base_lr |-> base_lr, max_lr |-> max_lr, step_size |-> step_size,
     scale_mode |-> scale_mode, scale_fn |-> scale_fn, mode |-> mode]

\* The object as the constructor left it.
Fresh ==
    [base_lr |-> base_lr, max_lr |-> max_lr, step_size |-> step_size,
     scale_mode |-> ctor.scale_mode, scale_fn |-> ctor.scale_fn,
     mode |-> ctor.mode]

-----------------------------------------------------------------------------
\* The amplitude functions and CyclicLR.schedule.

Outcome(kind, rate, arg_of, arg) ==
    [kind |-> kind, rate |-> rate, arg_of |-> arg_of, arg |-> arg]

\* Calling self.scale_fn(x).  "None" is not callable (TypeError).  The
\* exp_range lambda reads the global name gamma, which the module never
\* binds (NameError).  "custom" is a caller-supplied lambda x: 1/(1+abs(x)).
\* An amplitude below 2^-MaxPow2 is outside the exact arithmetic used here.
ApplyScaleFnGrowing(fn, x) ==
    CASE fn = "None" -> [kind |-> "TypeError", val |-> NoRate]
      [] fn = "triangular" -> [kind |-> "ok", val |-> RatInt(1)]
      [] fn = "triangular2" ->
            IF Abs(x - 1) > MaxPow2
            THEN [kind |-> "Unrepresented", val |-> NoRate]
            ELSE IF x >= 1
                 THEN [kind |-> "ok", val |-> RatInt(Pow2(x - 1))]
                 ELSE [kind |-> "ok", val |-> Rat(1, Pow2(1 - x))]
      [] fn = "exp_range" -> [kind |-> "NameError", val |-> NoRate]
      [] fn = "custom" -> [kind |-> "ok", val |-> Rat(1, 1 + Abs(x))]

ApplyScaleFn(fn, x) ==
    CASE fn = "None" -> [kind |-> "TypeError", val |-> NoRate]
      [] fn = "triangular" -> [kind |-> "ok", val |-> RatInt(1)]
      [] fn = "triangular2" ->
            IF Abs(x - 1) > MaxPow2
            THEN [kind |-> "Unrepresented", val |-> NoRate]
            ELSE IF x >= 1
                 THEN [kind |-> "ok", val |-> Rat(1, Pow2(x - 1))]
                 ELSE [kind |-> "ok", val |-> RatInt(Pow2(1 - x))]
      [] fn = "exp_range" -> [kind |-> "NameError", val |-> NoRate]
      [] fn = "custom" -> [kind |-> "ok", val |-> Rat(1, 1 + Abs(x))]

\* Lines 48-60 with the `is None` test dropped: resolves on every call.
ResolveAlways(self) ==
    CASE self.mode = "triangular" ->
            [self EXCEPT !.scale_fn = "triangular", !.scale_mode = "cycle"]
      [] self.mode = "triangular2" ->
            [self EXCEPT !.scale_fn = "triangular2", !.scale_mode = "cycle"]
      [] self.mode = "exp_range" ->
            [self EXCEPT !.scale_fn = "exp_range", !.scale_mode = "iterations"]
      [] OTHER -> self

\* Lines 48-60 with line 51 dropped: 'triangular' keeps the given scale_mode.
ResolveKeepsScaleMode(self) ==
    IF self.scale_fn = "None"
    THEN CASE self.mode = "triangular" ->
                 [self EXCEPT !.scale_fn = "triangular"]
           [] self.mode = "triangular2" ->
                 [self EXCEPT !.scale_fn = "triangular2", !.scale_mode = "cycle"]
           [] self.mode = "exp_range" ->
                 [self EXCEPT !.scale_fn = "exp_range", !.scale_mode = "iterations"]
           [] OTHER -> self
    ELSE self

\* Lines 48-60: the lazy choice of the amplitude function.  An unrecognised
\* mode matches no branch of the if/elif chain and leaves scale_fn None.
Resolve(self) ==
    IF self.scale_fn = "None"
    THEN CASE self.mode = "triangular" ->
                 [self EXCEPT !.scale_fn = "triangular", !.scale_mode = "cycle"]
           [] self.mode = "triangular2" ->
                 [self EXCEPT !.scale_fn = "triangular2", !.scale_mode = "cycle"]
           [] self.mode = "exp_range" ->
                 [self EXCEPT !.scale_fn = "exp_range", !.scale_mode = "iterations"]
           [] OTHER -> self
    ELSE self

\* Line 62 without the leading 1: np.floor(epochs / (2 * step_size)).
CycleFromZero(epochs, step) == FloorDiv(epochs, 2 * step)

\* Line 62: cycle = np.floor(1 + epochs / (2 * self.step_size)).
Cycle(epochs, step) == FloorDiv(2 * step + epochs, 2 * step)

\* Line 63: x = np.abs(epochs / self.step_size - 2 * cycle + 1).
X(epochs, step, cycle) == RatAbs(Rat(epochs - (2 * cycle - 1) * step, step))

\* Lines 62-70 on the object as resolution left it.
Rate(self, epochs) ==
    IF self.step_size = 0
    THEN Outcome("ZeroDivisionError", NoRate, "none", 0)
    ELSE LET cycle == Cycle(epochs, self.step_size)
             x == X(epochs, self.step_size, cycle)
             arg_of == IF self.scale_mode = "cycle" THEN "cycle" ELSE "epochs"
             arg == IF self.scale_mode = "cycle" THEN cycle ELSE epochs
             amp == ApplyScaleFn(self.scale_fn, arg)
             tri == RatMax(RatInt(0), RatSub(RatInt(1), x))
         IN  IF amp.kind # "ok"
             THEN Outcome(amp.kind, NoRate, arg_of, arg)
             ELSE Outcome("ok",
                          RatAdd(RatInt(self.base_lr),
                                 RatMul(RatMul(RatInt(self.max_lr - self.base_lr),
                                               tri),
                                        amp.val)),
                          arg_of, arg)

\* schedule reading scale_mode before the resolution of lines 48-60 writes it.
schedule_staleScaleMode(self, epochs) ==
    LET s1 == Resolve(self)
    IN  [self |-> s1,
         res |-> Rate([s1 EXCEPT !.scale_mode = self.scale_mode], epochs)]

\* Lines 47-70: the object after the call and the call's outcome.
schedule(self, epochs) ==
    LET s1 == Resolve(self)
    IN  [self |-> s1, res |-> Rate(s1, epochs)]

-----------------------------------------------------------------------------
\* State machine.

Result(op, epoch, res) ==
    [op |-> op, epoch |-> epoch, kind |-> res.kind, rate |-> res.rate,
     arg_of |-> res.arg_of, arg |-> res.arg]

Init ==
    /\ base_lr \in LrValues
    /\ max_lr \in LrValues
    /\ step_size \in StepSizes
    /\ scale_mode \in ScaleModes
    /\ scale_fn \in {"None", "custom"}
    /\ mode \in Modes
    /\ has_lr \in BOOLEAN
    /\ opt_lr = RatInt(10)
    /\ result = Result("init", 0, Outcome("none", NoRate, "none", 0))
    /\ ctor = [scale_fn |-> scale_fn, scale_mode |-> scale_mode, mode |-> mode]
    /\ mode_changed = FALSE

\* A direct call self.schedule(epochs).
CallSchedule(epochs) ==
    LET out == schedule(Self, epochs)
    IN  /\ scale_fn' = out.self.scale_fn
        /\ scale_mode' = out.self.scale_mode
        /\ result' = Result("schedule", epochs, out.res)
        /\ UNCHANGED <<base_lr, max_lr, step_size, mode, has_lr, opt_lr,
                       ctor, mode_changed>>

\* on_epoch_begin testing for 'lr' only after the schedule call.
on_epoch_begin_lateCheck(epoch) ==
    LET out == schedule(Self, epoch)
    IN  /\ scale_fn' = out.self.scale_fn
        /\ scale_mode' = out.self.scale_mode
        /\ IF out.res.kind # "ok"
           THEN /\ result' = Result("on_epoch_begin", epoch, out.res)
                /\ opt_lr' = opt_lr
           ELSE IF ~has_lr
           THEN /\ result' = Result("on_epoch_begin", epoch,
                                    Outcome("ValueError", NoRate, "none", 0))
                /\ opt_lr' = opt_lr
           ELSE /\ result' = Result("on_epoch_begin", epoch, out.res)
                /\ opt_lr' = out.res.rate
        /\ UNCHANGED <<base_lr, max_lr, step_size, mode, has_lr,
                       ctor, mode_changed>>

\* Lines 18-27: LearningRateScheduler.on_epoch_begin.  An exception of
\* schedule propagates before set_value (line 26) is reached.
on_epoch_begin(epoch) ==
    IF ~has_lr
    THEN /\ result' = Result("on_epoch_begin", epoch,
                             Outcome("ValueError", NoRate, "none", 0))
         /\ UNCHANGED <<base_lr, max_lr, step_size, scale_mode, scale_fn, mode,
                        has_lr, opt_lr, ctor, mode_changed>>
    ELSE LET out == schedule(Self, epoch)
         IN  /\ scale_fn' = out.self.scale_fn
             /\ scale_mode' = out.self.scale_mode
             /\ result' = Result("on_epoch_begin", epoch, out.res)
             /\ opt_lr' = IF out.res.kind = "ok" THEN out.res.rate ELSE opt_lr
             /\ UNCHANGED <<base_lr, max_lr, step_size, mode, has_lr,
                            ctor, mode_changed>>

\* Line 45: mode is a plain attribute; the caller assigns self.mode = m.
set_mode(m) ==
    /\ m # mode
    /\ mode' = m
    /\ mode_changed' = TRUE
    /\ result' = Result("set_mode", 0, Outcome("none", NoRate, "none", 0))
    /\ UNCHANGED <<base_lr, max_lr, step_size, scale_mode, scale_fn,
                   has_lr, opt_lr, ctor>>

\* The scheduler driven directly: schedule calls and assignments to mode.
Next ==
    \/ \E e \in EpochsFor(step_size) : CallSchedule(e)
    \/ \E m \in Modes : set_mode(m)

Spec == Init /\ [][Next]_vars

\* The scheduler driven as a Keras callback, with the default rates: the
\* training loop calls on_epoch_begin; schedule and mode stay reachable.
InitCallback ==
    /\ Init
    /\ base_lr = DefaultBaseLr
    /\ max_lr = DefaultMaxLr

NextCallback ==
    \/ \E e \in EpochsFor(step_size) : on_epoch_begin(e)
    \/ \E e \in EpochsFor(step_size) : CallSchedule(e)
    \/ \E m \in Modes : set_mode(m)

SpecCallback == InitCallback /\ [][NextCallback]_vars

\* schedule was entered by the last operation.
Scheduled ==
    \/ result.op = "schedule"
    \/ result.op = "on_epoch_begin" /\ result.kind # "ValueError"

TypeOK ==
    /\ result.kind \in {"none", "ok", "ValueError", "TypeError", "NameError",
                        "ZeroDivisionError"}
    /\ result.kind = "ok" <=> result.rate # NoRate
    /\ scale_fn \in {"None", "triangular", "triangular2", "exp_range", "custom"}
    /\ scale_mode \in ScaleModes

-----------------------------------------------------------------------------
\* Properties.

Recognised == {"triangular", "triangular2", "exp_range"}

\* The last operation was a schedule call whose outcome equals r's.
SameOutcome(r) == result.kind = r.kind /\ result.rate = r.rate

\* C1: in mode 'triangular' or 'triangular2', constructed without scale_fn,
\* with step_size > 0 and max_lr >= base_lr, every rate schedule returns,
\* after any earlier calls, lies between base_lr and max_lr.
C1_RateWithinBounds ==
    ( /\ Scheduled
      /\ result.kind = "ok"
      /\ ctor.scale_fn = "None"
      /\ mode \in {"triangular", "triangular2"}
      /\ step_size > 0
      /\ max_lr >= base_lr )
    => /\ RatLeq(RatInt(base_lr), result.rate)
       /\ RatLeq(result.rate, RatInt(max_lr))

\* A triangular2 call in cycle 2 returning a rate strictly inside the bounds.
C1_Witness ==
    /\ result.op = "schedule"
    /\ result.kind = "ok"
    /\ ctor.scale_fn = "None"
    /\ mode = "triangular2"
    /\ step_size > 0
    /\ result.arg_of = "cycle"
    /\ result.arg = 2
    /\ RatLess(RatInt(base_lr), result.rate)
    /\ RatLess(result.rate, RatInt(max_lr))

\* The configuration C2 speaks of: 'triangular' from construction on, no
\* scale_fn, a positive step_size.
C2_Config ==
    /\ ctor.scale_fn = "None"
    /\ ctor.mode = "triangular"
    /\ ~mode_changed
    /\ step_size > 0

\* What C2 says of the endpoints of the first cycle.
C2_Endpoints ==
    /\ result'.kind = "ok"
    /\ result'.epoch = 0 => result'.rate = RatInt(base_lr)
    /\ result'.epoch = step_size => result'.rate = RatInt(max_lr)
    /\ result'.epoch = 2 * step_size => result'.rate = RatInt(base_lr)

\* Two consecutive schedule calls on the rising half of the first cycle.
C2_RisingPair ==
    /\ result.op = "schedule"
    /\ result.epoch < result'.epoch
    /\ result'.epoch <= step_size

\* C2 as stated: in mode 'triangular' (no scale_fn, step_size > 0)
\* schedule(0) = base_lr, schedule(step_size) = max_lr,
\* schedule(2*step_size) = base_lr, and the rate is strictly increasing
\* over 0 <= e1 < e2 <= step_size.
C2_AsStated ==
    [][ (C2_Config /\ result'.op = "schedule")
        => /\ C2_Endpoints
           /\ C2_RisingPair => RatLess(result.rate, result'.rate) ]_vars

\* C2 amended: the endpoints as stated; over 0 <= e1 < e2 <= step_size the
\* rate is strictly increasing when max_lr > base_lr, constant when
\* max_lr = base_lr and strictly decreasing when max_lr < base_lr.
C2_TriangularShape ==
    [][ (C2_Config /\ result'.op = "schedule")
        => /\ C2_Endpoints
           /\ (C2_RisingPair /\ max_lr > base_lr)
                 => RatLess(result.rate, result'.rate)
           /\ (C2_RisingPair /\ max_lr = base_lr)
                 => result.rate = result'.rate
           /\ (C2_RisingPair /\ max_lr < base_lr)
                 => RatLess(result'.rate, result.rate) ]_vars

\* The default scheduler returning max_lr at epoch 2000.
C2_Witness ==
    /\ C2_Config
    /\ base_lr = DefaultBaseLr
    /\ max_lr = DefaultMaxLr
    /\ step_size = DefaultStepSize
    /\ result.op = "schedule"
    /\ result.epoch = DefaultStepSize
    /\ result.rate = RatInt(DefaultMaxLr)

\* The configuration C3 speaks of.
C3_Config ==
    /\ ctor.scale_fn = "None"
    /\ ctor.mode = "triangular2"
    /\ ~mode_changed
    /\ base_lr = DefaultBaseLr
    /\ max_lr = DefaultMaxLr
    /\ step_size = DefaultStepSize

\* base_lr + (max_lr - base_lr) / 2.
HalfPeak == RatAdd(RatInt(base_lr), Rat(max_lr - base_lr, 2))

\* C3 as stated: in mode 'triangular2' with the default rates and
\* step_size = 2000, schedule(4000) = base_lr + (max_lr - base_lr)/2.
C3_AsStated ==
    (C3_Config /\ result.op = "schedule" /\ result.epoch = 2 * DefaultStepSize)
    => /\ result.kind = "ok"
       /\ result.rate = HalfPeak

\* C3 amended: epoch 4000 is the boundary between cycles 1 and 2, where the
\* rate is base_lr; the peak of cycle 2 is at epoch 6000 and equals
\* base_lr + (max_lr - base_lr)/2, half the amplitude of the rate at epoch
\* 2000, which is max_lr.
C3_HalvedPeakAtCycleCentre ==
    (C3_Config /\ result.op = "schedule")
    => /\ result.kind = "ok"
       /\ result.epoch = DefaultStepSize
             => result.arg = 1 /\ result.rate = RatInt(max_lr)
       /\ result.epoch = 2 * DefaultStepSize
             => result.arg = 2 /\ result.rate = RatInt(base_lr)
       /\ result.epoch = 3 * DefaultStepSize
             => result.arg = 2 /\ result.rate = HalfPeak

\* The call at epoch 6000 returning the halved peak.
C3_Witness ==
    /\ C3_Config
    /\ result.op = "schedule"
    /\ result.epoch = 3 * DefaultStepSize
    /\ result.rate = HalfPeak

\* C4: constructed with a custom scale_fn and scale_mode 'iterations',
\* scale_fn and scale_mode stay as supplied under any schedule calls and
\* assignments to mode; schedule passes the raw epoch, never the cycle, to
\* the custom function; and the outcome for an epoch is the one the
\* scheduler gives with mode as constructed.
C4_CustomScaleFnOverridesMode ==
    (ctor.scale_fn = "custom" /\ ctor.scale_mode = "iterations")
    => /\ scale_fn = "custom"
       /\ scale_mode = "iterations"
       /\ result.op = "schedule"
             => /\ result.arg_of # "cycle"
                /\ result.arg_of = "epochs" => result.arg = result.epoch
                /\ step_size # 0 => result.arg_of = "epochs"
                /\ SameOutcome(schedule(Fresh, result.epoch).res)

\* A call after mode was changed that evaluated the custom function at an
\* epoch differing from the cycle number.
C4_Witness ==
    /\ ctor.scale_fn = "custom"
    /\ ctor.scale_mode = "iterations"
    /\ mode_changed
    /\ mode # ctor.mode
    /\ result.op = "schedule"
    /\ result.kind = "ok"
    /\ result.arg_of = "epochs"
    /\ result.arg # Cycle(result.epoch, step_size)
    /\ result.rate # RatInt(base_lr)

\* C5: a schedule call on a scheduler whose step_size is zero or negative
\* returns no rate.
C5_StepSizeRejected ==
    (step_size <= 0 /\ result.op = "schedule") => result.kind # "ok"

\* C6: on_epoch_begin on an optimizer without 'lr' fails with ValueError
\* before schedule is called: no rate, nothing written to the optimizer,
\* scale_fn and scale_mode unchanged.
C6_MissingLrFailsFirst ==
    [][ (~has_lr /\ result'.op = "on_epoch_begin")
        => /\ result'.kind = "ValueError"
           /\ result'.rate = NoRate
           /\ result'.arg_of = "none"
           /\ opt_lr' = opt_lr
           /\ scale_fn' = scale_fn
           /\ scale_mode' = scale_mode ]_vars

\* on_epoch_begin failed on an unresolved scheduler whose mode would have
\* resolved it, and it is still unresolved.
C6_Witness ==
    /\ ~has_lr
    /\ result.op = "on_epoch_begin"
    /\ result.kind = "ValueError"
    /\ mode = "triangular2"
    /\ scale_fn = "None"
    /\ scale_mode = "iterations"
    /\ opt_lr = RatInt(10)

\* C7: with the configuration fixed, the rate of a successful schedule call
\* depends on the epoch alone: after any earlier calls it is the rate the
\* first call on the scheduler as constructed returns for that epoch.
C7_HistoryIndependent ==
    (~mode_changed /\ result.op = "schedule" /\ result.kind = "ok")
    => SameOutcome(schedule(Fresh, result.epoch).res)

\* A successful call on a scheduler that resolution has changed since it was
\* constructed.
C7_Witness ==
    /\ ~mode_changed
    /\ result.op = "schedule"
    /\ result.kind = "ok"
    /\ ctor.scale_fn = "None"
    /\ ctor.scale_mode = "iterations"
    /\ scale_fn = "triangular2"
    /\ scale_mode = "cycle"
    /\ result.arg = 2

\* Once resolved, scale_fn and scale_mode never change.
C8_Terminal ==
    scale_fn # "None" => scale_fn' = scale_fn /\ scale_mode' = scale_mode

\* C8 as stated: constructed with scale_fn unset, the first schedule call,
\* for any value of mode, resolves the scheduler, and the resolved state is
\* terminal.
C8_AsStated ==
    [][ /\ (ctor.scale_fn = "None" /\ result'.op = "schedule")
            => scale_fn' # "None"
        /\ C8_Terminal ]_vars

\* C8 amended: a schedule call made while mode is one of 'triangular',
\* 'triangular2', 'exp_range' resolves an unresolved scheduler; one made
\* while mode is any other value fails and leaves it unresolved; the
\* resolved state is terminal.
C8_ResolvedOnceUnderRecognisedMode ==
    [][ /\ (ctor.scale_fn = "None" /\ result'.op = "schedule"
              /\ mode \in Recognised)
            => scale_fn' # "None"
        /\ (scale_fn = "None" /\ result'.op = "schedule"
              /\ mode \notin Recognised)
            => /\ scale_fn' = "None"
               /\ scale_mode' = scale_mode
               /\ result'.kind \in {"TypeError", "ZeroDivisionError"}
        /\ C8_Terminal ]_vars

\* Resolved under 'exp_range', then mode changed and schedule called again:
\* scale_fn and scale_mode are still those of 'exp_range'.
C8_Witness ==
    /\ ctor.scale_fn = "None"
    /\ ctor.mode = "exp_range"
    /\ mode_changed
    /\ mode = "triangular"
    /\ result.op = "schedule"
    /\ scale_fn = "exp_range"
    /\ scale_mode = "iterations"

\* The scheduler as constructed, but with the other scale_mode.
Twin ==
    [Fresh EXCEPT !.scale_mode =
        IF ctor.scale_mode = "cycle" THEN "iterations" ELSE "cycle"]

\* C9: constructed with scale_fn unset, in mode 'triangular' or
\* 'triangular2' a schedule call leaves scale_mode 'cycle', passes the cycle
\* number floor(1 + epoch/(2*step_size)), never the raw epoch, to the
\* amplitude function, and has the outcome of the scheduler constructed with
\* the other scale_mode.
C9_ConstructorScaleModeIgnored ==
    ( /\ ctor.scale_fn = "None"
      /\ ~mode_changed
      /\ mode \in {"triangular", "triangular2"}
      /\ result.op = "schedule" )
    => /\ scale_mode = "cycle"
       /\ result.arg_of # "epochs"
       /\ step_size # 0
             => /\ result.arg_of = "cycle"
                /\ result.arg = Cycle(result.epoch, step_size)
       /\ SameOutcome(schedule(Twin, result.epoch).res)

\* A triangular2 call on a scheduler constructed with scale_mode
\* 'iterations' that evaluated the amplitude at cycle 2.
C9_Witness ==
    /\ ctor.scale_fn = "None"
    /\ ctor.scale_mode = "iterations"
    /\ ~mode_changed
    /\ mode = "triangular2"
    /\ result.op = "schedule"
    /\ result.kind = "ok"
    /\ result.arg = 2
    /\ result.epoch # 2
    /\ result.rate # RatInt(base_lr)

\* C10: a schedule call that runs with the 'exp_range' amplitude function
\* (installed by this call or by an earlier one, whatever mode is now) fails
\* with NameError, returns no rate and leaves scale_mode 'iterations'.
C10_ExpRangeNameErrorSticky ==
    ( /\ ctor.scale_fn = "None"
      /\ result.op = "schedule"
      /\ scale_fn = "exp_range" )
    => /\ result.kind = "NameError"
       /\ result.rate = NoRate
       /\ scale_mode = "iterations"

\* What holds of 'exp_range' for every step_size: the call returns no rate
\* and the failure is sticky; the error is NameError unless step_size = 0,
\* where line 62 raises ZeroDivisionError first.
ExpRangeAlwaysFails ==
    ( /\ ctor.scale_fn = "None"
      /\ result.op = "schedule"
      /\ scale_fn = "exp_range" )
    => /\ result.kind = (IF step_size = 0 THEN "ZeroDivisionError"
                         ELSE "NameError")
       /\ result.rate = NoRate
       /\ scale_mode = "iterations"

====
